---- MODULE Spec2Model ----
(***************************************************************************)
(* Model of the Gantt page controller (GanttClient): the local task list,  *)
(* the persistence collaborator's task documents, and the asynchronous     *)
(* handlers handleProgressUpdate, handleTaskUpdate, handleAddTask,         *)
(* handleImportFile and fetchTasks.  Every await of a handler is a         *)
(* suspension point: the part of a handler before the await is one action, *)
(* the continuation after the persistence call settles is another.         *)
(*                                                                         *)
(* Dates are 'yyyy-MM-dd' strings in the source and are compared as        *)
(* strings; for well-formed dates that order is the calendar order, so a   *)
(* date is modelled by its day number.  NoDate stands for the falsy values *)
(* '' and undefined of an actual date.                                     *)
(***************************************************************************)
EXTENDS Integers, Sequences, FiniteSets, Bags, TLC

\* ---------------------------------------------------------------- bounds
MaxDate == 2
MaxTasks == 2
\* handler invocations per run, and persistence calls in flight at once:
\* the whole controller, progress updates alone, overlapping progress updates
MaxCtlCalls == 2
MaxCtlInflight == 2
MaxCalls == 2
MaxInflight == 1
MaxRaceCalls == 3
MaxRaceInflight == 2

\* --------------------------------------------------------------- domains
NoDate == 0
Dates == 1..MaxDate
StartWork == -1
ProgressInputs == {-5, StartWork, 0, 60, 100, 150}
Reasons == {"", "late"}
NoId == 0

VARIABLES
    store,      \* task documents of the selected project held by the persistence collaborator
    tasks,      \* the controller's local task list (React state `tasks`)
    calls,      \* bag of handler invocations suspended at an await of a persistence write
    fetches,    \* bag of fetchTasks invocations suspended at await getTasks
    budget,     \* what the run may do: handler invocations left, persistence calls at once, documents
    nextId,     \* next document id handed out by the persistence collaborator
    updatingTaskIds,  \* React state `updatingTaskIds`
    importing,  \* React state `importing`
    alerts,     \* the messages shown to the user with alert(), oldest first
    exported,   \* the rows of the CSV file handleExport last handed to the browser
    windowMode,       \* prop `windowMode` of GanttClient
    chartViewMode,    \* React state `chartViewMode`
    mountDate,        \* new Date() when the page was first rendered
    fourWeekRange,    \* the memoized `fourWeekRange`
    selectedProject,  \* start and end date of the selected project
    props,      \* props of the TimelineHeader or SCurveGraph being rendered
    rendered,   \* what that component drew from its props
    members,        \* the member documents getMembers reads
    localStorage,   \* the item stored under the key 'srt-hst-user'
    user,           \* React state `user` of AuthProvider
    loading,        \* React state `loading` of AuthProvider
    authCalls,      \* bag of login and refreshUser invocations suspended at await getMembers
    loginResults    \* what the login calls have returned, oldest first

\* the controller's data, and what the page shows
ctl == <<store, tasks, calls, fetches, budget, nextId, updatingTaskIds, importing, alerts, exported>>

screen == <<windowMode, chartViewMode, mountDate, fourWeekRange, selectedProject, props, rendered>>

auth == <<members, localStorage, user, loading, authCalls, loginResults>>

vars == <<ctl, screen, auth>>

\* alert(text); an import's success message carries its record count
Alert(msg, count) == Append(alerts, [msg |-> msg, count |-> count])

\* number of persistence calls in flight
Inflight == BagCardinality(calls) + BagCardinality(fetches)

\* --------------------------------------------------------------- helpers
\* tasks.find((t) => t.id === taskId)
HasTask(list, taskId) == \E i \in 1..Len(list) : list[i].id = taskId

FindTask(list, taskId) ==
    list[CHOOSE i \in 1..Len(list) :
            /\ list[i].id = taskId
            /\ \A j \in 1..(i - 1) : list[j].id # taskId]

\* { ...t, ...updates }: updateTask is a partial merge
Merge(t, updates) ==
    [f \in DOMAIN t |-> IF f \in DOMAIN updates THEN updates[f] ELSE t[f]]

\* prev.map((t) => (t.id === taskId ? { ...t, ...updates } : t))
MergeInto(list, taskId, updates) ==
    [i \in 1..Len(list) |->
        IF list[i].id = taskId THEN Merge(list[i], updates) ELSE list[i]]

NewTask(id, start, end, duration, order) ==
    [id |-> id, type |-> "task", category |-> "",
     planStartDate |-> start, planEndDate |-> end, planDuration |-> duration,
     progress |-> 0, status |-> "not-started",
     actualStartDate |-> NoDate, actualEndDate |-> NoDate,
     progressUpdatedAt |-> NoDate, remarks |-> "",
     order |-> order, parentTaskId |-> NoId, predecessors |-> <<>>]

\* ------------------------------------------------- handleProgressUpdate
\* lines 121-122
IsStartingWork(newProgress) == newProgress = StartWork

ActualProgress(newProgress) == IF IsStartingWork(newProgress) THEN 0 ELSE newProgress

\* faulty variant: the starting-work flag does not count as work under way
NewStatusIgnoresFlag(newProgress) ==
    IF ActualProgress(newProgress) = 100 THEN "completed"
    ELSE IF ActualProgress(newProgress) > 0 THEN "in-progress"
    ELSE "not-started"

\* lines 124-126
NewStatus(newProgress) ==
    IF ActualProgress(newProgress) = 100 THEN "completed"
    ELSE IF ActualProgress(newProgress) > 0 \/ IsStartingWork(newProgress) THEN "in-progress"
    ELSE "not-started"

\* lines 128-134
BaseUpdate(newProgress, updateDate) ==
    [progress |-> ActualProgress(newProgress),
     progressUpdatedAt |-> updateDate,
     status |-> NewStatus(newProgress)]

RemarksUpdate(reason) ==
    IF reason # "" THEN [remarks |-> reason] ELSE <<>>

\* faulty variant: a first update records the update date as the start
ActualStartFromUpdateDate(task, newProgress, updateDate) ==
    IF IsStartingWork(newProgress) THEN [actualStartDate |-> updateDate]
    ELSE IF ActualProgress(newProgress) = 0 THEN [actualStartDate |-> NoDate]
    ELSE IF ActualProgress(newProgress) > 0 THEN
        IF task.actualStartDate = NoDate THEN [actualStartDate |-> updateDate]
        ELSE IF updateDate < task.actualStartDate THEN [actualStartDate |-> updateDate]
        ELSE <<>>
    ELSE <<>>

\* faulty variant: the comparison of the dates is reversed
ActualStartPushedLater(task, newProgress, updateDate) ==
    IF IsStartingWork(newProgress) THEN [actualStartDate |-> updateDate]
    ELSE IF ActualProgress(newProgress) = 0 THEN [actualStartDate |-> NoDate]
    ELSE IF ActualProgress(newProgress) > 0 THEN
        IF task.actualStartDate = NoDate THEN [actualStartDate |-> task.planStartDate]
        ELSE IF updateDate > task.actualStartDate THEN [actualStartDate |-> updateDate]
        ELSE <<>>
    ELSE <<>>

\* faulty variant: a return to 0 leaves the start date in place
ActualStartKeptAtZero(task, newProgress, updateDate) ==
    IF IsStartingWork(newProgress) THEN [actualStartDate |-> updateDate]
    ELSE IF ActualProgress(newProgress) = 0 THEN <<>>
    ELSE IF ActualProgress(newProgress) > 0 THEN
        IF task.actualStartDate = NoDate THEN [actualStartDate |-> task.planStartDate]
        ELSE IF updateDate < task.actualStartDate THEN [actualStartDate |-> updateDate]
        ELSE <<>>
    ELSE <<>>

\* lines 136-150
ActualStartUpdate(task, newProgress, updateDate) ==
    IF IsStartingWork(newProgress) THEN [actualStartDate |-> updateDate]
    ELSE IF ActualProgress(newProgress) = 0 THEN
        IF NewStatus(newProgress) = "in-progress" THEN
            IF task.actualStartDate = NoDate
            THEN [actualStartDate |-> updateDate] ELSE <<>>
        ELSE [actualStartDate |-> NoDate]
    ELSE IF ActualProgress(newProgress) > 0 THEN
        IF task.actualStartDate = NoDate THEN [actualStartDate |-> task.planStartDate]
        ELSE IF updateDate < task.actualStartDate THEN [actualStartDate |-> updateDate]
        ELSE <<>>
    ELSE <<>>

\* faulty variant: an end date already recorded is not replaced
ActualEndKeepsFirst(task, newProgress, updateDate) ==
    IF ActualProgress(newProgress) = 100 THEN
        IF task.actualEndDate # NoDate THEN <<>> ELSE [actualEndDate |-> updateDate]
    ELSE IF task.actualEndDate # NoDate THEN [actualEndDate |-> NoDate]
    ELSE <<>>

\* lines 152-156
ActualEndUpdate(task, newProgress, updateDate) ==
    IF ActualProgress(newProgress) = 100 THEN [actualEndDate |-> updateDate]
    ELSE IF task.actualEndDate # NoDate THEN [actualEndDate |-> NoDate]
    ELSE <<>>

\* UpdateData as a copy of the whole task with the new fields set
UpdateDataOfWholeTask(task, newProgress, updateDate, reason) ==
    BaseUpdate(newProgress, updateDate)
        @@ RemarksUpdate(reason)
        @@ ActualStartUpdate(task, newProgress, updateDate)
        @@ ActualEndUpdate(task, newProgress, updateDate)
        @@ task

\* the updateData object handed to updateTask
UpdateData(task, newProgress, updateDate, reason) ==
    BaseUpdate(newProgress, updateDate)
        @@ RemarksUpdate(reason)
        @@ ActualStartUpdate(task, newProgress, updateDate)
        @@ ActualEndUpdate(task, newProgress, updateDate)

\* lines 116-158: up to `await updateTask(taskId, updateData)`
HandleProgressUpdate(taskId, newProgress, updateDate, reason) ==
    /\ budget.calls > 0
    /\ Inflight < budget.inflight
    /\ HasTask(tasks, taskId)
    /\ LET task == FindTask(tasks, taskId) IN
        calls' = calls (+) SetToBag(
            {[kind |-> "progress", taskId |-> taskId,
              newProgress |-> newProgress, updateDate |-> updateDate,
              reason |-> reason, task |-> task,
              data |-> UpdateData(task, newProgress, updateDate, reason)]})
    /\ budget' = [budget EXCEPT !.calls = @ - 1]
    /\ UNCHANGED <<store, tasks, fetches, nextId, updatingTaskIds, importing, alerts, exported, screen, auth>>

\* fetchTasks up to `await getTasks(selectedProjectId)`
StartFetch(fs) == fs (+) SetToBag({[read |-> FALSE, snap |-> <<>>]})

\* lines 158-159: updateTask resolved, then fetchTasks()
ProgressUpdateOk(c) ==
    /\ BagIn(c, calls) /\ c.kind = "progress"
    /\ store' = MergeInto(store, c.taskId, c.data)
    /\ calls' = calls (-) SetToBag({c})
    /\ fetches' = StartFetch(fetches)
    /\ UNCHANGED <<tasks, budget, nextId, updatingTaskIds, importing, alerts, exported, screen, auth>>

\* lines 160-163: updateTask rejected; alert, no fetch
ProgressUpdateFail(c) ==
    /\ BagIn(c, calls) /\ c.kind = "progress"
    /\ calls' = calls (-) SetToBag({c})
    /\ alerts' = Alert("Failed to update progress.", 0)
    /\ UNCHANGED <<store, tasks, fetches, budget, nextId, updatingTaskIds, importing, exported, screen, auth>>

\* ----------------------------------------------------------- fetchTasks
\* the collaborator evaluates getTasks at some moment between call and reply
GetTasksRead(f) ==
    /\ BagIn(f, fetches) /\ ~f.read
    /\ fetches' = (fetches (-) SetToBag({f})) (+) SetToBag({[read |-> TRUE, snap |-> store]})
    /\ UNCHANGED <<store, tasks, calls, budget, nextId, updatingTaskIds, importing, alerts, exported, screen, auth>>

\* lines 68-69: setTasks(tasksData)
FetchTasksOk(f) ==
    /\ BagIn(f, fetches) /\ f.read
    /\ tasks' = f.snap
    /\ fetches' = fetches (-) SetToBag({f})
    /\ UNCHANGED <<store, calls, budget, nextId, updatingTaskIds, importing, alerts, exported, screen, auth>>

\* lines 70-72: getTasks rejected; logged only
FetchTasksFail(f) ==
    /\ BagIn(f, fetches)
    /\ fetches' = fetches (-) SetToBag({f})
    /\ UNCHANGED <<store, tasks, calls, budget, nextId, updatingTaskIds, importing, alerts, exported, screen, auth>>

\* ----------------------------------------------------- handleTaskUpdate
\* lines 477-486: mark the task as updating, apply the optimistic change to the
\* local list, up to `await updateTask(taskId, updates)`
HandleTaskUpdate(taskId, updates) ==
    /\ budget.calls > 0
    /\ Inflight < budget.inflight
    /\ HasTask(tasks, taskId)
    /\ updatingTaskIds' = updatingTaskIds \cup {taskId}
    /\ tasks' = MergeInto(tasks, taskId, updates)
    /\ calls' = calls (+) SetToBag(
            {[kind |-> "schedule", taskId |-> taskId, updates |-> updates]})
    /\ budget' = [budget EXCEPT !.calls = @ - 1]
    /\ UNCHANGED <<store, fetches, nextId, importing, alerts, exported, screen, auth>>

\* lines 486-487 and 491-496: updateTask resolved; fetchTasks(), then the finally block
TaskUpdateOk(c) ==
    /\ BagIn(c, calls) /\ c.kind = "schedule"
    /\ store' = MergeInto(store, c.taskId, c.updates)
    /\ calls' = calls (-) SetToBag({c})
    /\ fetches' = StartFetch(fetches)
    /\ updatingTaskIds' = updatingTaskIds \ {c.taskId}
    /\ UNCHANGED <<tasks, budget, nextId, importing, alerts, exported, screen, auth>>

\* TaskUpdateFail without the finally block of lines 491-496
TaskUpdateFailStaysMarked(c) ==
    /\ BagIn(c, calls) /\ c.kind = "schedule"
    /\ calls' = calls (-) SetToBag({c})
    /\ fetches' = StartFetch(fetches)
    /\ UNCHANGED <<store, tasks, budget, nextId, updatingTaskIds, importing, alerts,
                   exported, screen, auth>>

\* lines 488-496: updateTask rejected; fetchTasks(), then the finally block
TaskUpdateFail(c) ==
    /\ BagIn(c, calls) /\ c.kind = "schedule"
    /\ calls' = calls (-) SetToBag({c})
    /\ fetches' = StartFetch(fetches)
    /\ updatingTaskIds' = updatingTaskIds \ {c.taskId}
    /\ UNCHANGED <<store, tasks, budget, nextId, importing, alerts, exported, screen, auth>>

\* the schedule changes the chart requests through onTaskUpdate, as the
\* contract updateTaskSchedule(taskId, newStart, newEnd) gives them: both plan
\* dates of a bar, and nothing else
ScheduleUpdates ==
    {[planStartDate |-> s, planEndDate |-> e] : s \in Dates, e \in Dates} \cap
    {u \in [planStartDate : Dates, planEndDate : Dates] : u.planStartDate <= u.planEndDate}

\* --------------------------------------------------------- number parsing
\* parseInt(cell, 10) and parseFloat(cell) on the cells entered: "", "abc",
\* "0", "-3", "2", "60", "100", "150", and on the cells an export writes;
\* NaN is the value of a cell that is no number
NaN == -999

ParseInt(cell) ==
    CASE cell = "0" -> 0
      [] cell = "-5" -> -5
      [] cell = "-3" -> -3
      [] cell = "1" -> 1
      [] cell = "3" -> 3
      [] cell = "2" -> 2
      [] cell = "60" -> 60
      [] cell = "100" -> 100
      [] cell = "150" -> 150
      [] OTHER -> NaN

ParseFloat(cell) == ParseInt(cell)

\* x || y on numbers: 0 and NaN are falsy
OrElse(x, y) == IF x = 0 \/ x = NaN THEN y ELSE x

\* cell || fallback on strings: '' is falsy
OrText(cell, fallback) == IF cell = "" THEN fallback ELSE cell

Max(a, b) == IF a >= b THEN a ELSE b

\* MaxOrder of a handler that numbers its records from 1
MaxOrderIgnoresList(list) == 0

\* Math.max(...tasks.map((t) => t.order || 0)) for a non-empty list, else 0
RECURSIVE MaxOrder(_)
MaxOrder(list) ==
    IF Len(list) = 0 THEN 0
    ELSE IF Len(list) = 1 THEN OrElse(list[1].order, 0)
    ELSE Max(OrElse(list[1].order, 0), MaxOrder(Tail(list)))

\* --------------------------------------------------------- handleAddTask
\* line 216
AddPlanDuration(durationCell) == Max(1, OrElse(ParseInt(durationCell), 1))

\* lines 219-227: addDays(start, planDuration - 1)
StorageEndDate(planStartDate, planDuration) == planStartDate + (planDuration - 1)

\* lines 231-240
SelectSeq2(list, parentTaskId) == SelectSeq(list, LAMBDA t : t.parentTaskId = parentTaskId)

PredecessorId(list, parentTaskId, autoLink) ==
    IF ~autoLink THEN NoId
    ELSE IF parentTaskId # NoId THEN
        LET siblings == SelectSeq2(list, parentTaskId) IN
        IF Len(siblings) > 0 THEN siblings[Len(siblings)].id ELSE NoId
    ELSE IF Len(list) > 0 THEN list[Len(list)].id
    ELSE NoId

\* lines 242-261: the document handed to createTask
AddTaskDoc(list, durationCell, planStartDate, parentTaskId, autoLink) ==
    LET planDuration == AddPlanDuration(durationCell)
        pred == PredecessorId(list, parentTaskId, autoLink)
    IN  [type |-> "task", category |-> "",
         planStartDate |-> planStartDate,
         planEndDate |-> StorageEndDate(planStartDate, planDuration),
         planDuration |-> planDuration,
         progress |-> 0, status |-> "not-started",
         actualStartDate |-> NoDate, actualEndDate |-> NoDate,
         progressUpdatedAt |-> NoDate, remarks |-> "",
         order |-> MaxOrder(list) + 1,
         parentTaskId |-> parentTaskId,
         predecessors |-> IF pred # NoId THEN <<pred>> ELSE <<>>]

\* lines 211-242: up to `await createTask(...)`
HandleAddTask(durationCell, planStartDate, parentTaskId, autoLink) ==
    /\ budget.calls > 0
    /\ Inflight < budget.inflight
    /\ nextId <= budget.tasks
    /\ parentTaskId = NoId \/ HasTask(tasks, parentTaskId)
    /\ calls' = calls (+) SetToBag(
            {[kind |-> "add", id |-> nextId,
              doc |-> AddTaskDoc(tasks, durationCell, planStartDate, parentTaskId, autoLink)]})
    /\ nextId' = nextId + 1
    /\ budget' = [budget EXCEPT !.calls = @ - 1]
    /\ UNCHANGED <<store, tasks, fetches, updatingTaskIds, importing, alerts, exported, screen, auth>>

\* createTask resolved: the document is stored under its new id; lines 263-265
AddTaskOk(c) ==
    /\ BagIn(c, calls) /\ c.kind = "add"
    /\ store' = Append(store, [id |-> c.id] @@ c.doc)
    /\ calls' = calls (-) SetToBag({c})
    /\ fetches' = StartFetch(fetches)
    /\ UNCHANGED <<tasks, budget, nextId, updatingTaskIds, importing, alerts, exported, screen, auth>>

\* lines 266-269: createTask rejected; alert
AddTaskFail(c) ==
    /\ BagIn(c, calls) /\ c.kind = "add"
    /\ calls' = calls (-) SetToBag({c})
    /\ alerts' = Alert("Failed to create task.", 0)
    /\ UNCHANGED <<store, tasks, fetches, budget, nextId, updatingTaskIds, importing, exported, screen, auth>>

\* ------------------------------------------------------ handleImportFile
\* A parsed CSV row holds the cells of the recognised columns.  A date cell is
\* blank, '-', a yyyy-MM-dd date, text no date can be read from ("other"), or
\* text of the shape of a date that names no calendar day, such as
\* '2024-02-31' or '31/02/2024' ("shaped").
DateCell(kind, day) == [kind |-> kind, day |-> day]

\* lines 329-345
\* what parseISO makes an Invalid Date of
BadDate == -998

ParseDateString(val) ==
    IF val.kind = "blank" \/ val.kind = "dash" THEN NoDate
    ELSE IF val.kind = "iso" THEN val.day
    ELSE IF val.kind = "shaped" THEN BadDate
    ELSE NoDate

\* lines 347-353
ImportDuration(row) == OrElse(ParseInt(OrText(row.duration, "1")), 1)

ImportPlanStart(row, today) ==
    IF ParseDateString(row.start) = NoDate THEN today ELSE ParseDateString(row.start)

ImportPlanEnd(row, today) == ImportPlanStart(row, today) + (ImportDuration(row) - 1)

\* line 325
ImportCategory(row) == OrText(row.category, "Imported")

\* line 355
ImportType(row) == IF row.type = "group" THEN "group" ELSE "task"

\* lines 358-365: the parent of the row and the group scope after it;
\* a scope is <<id, category>>, or <<>> for none
ImportParent(row, id, activeGroup) ==
    IF ImportType(row) = "group" THEN NoId
    ELSE IF activeGroup # <<>> /\ activeGroup[2] = ImportCategory(row) THEN activeGroup[1]
    ELSE NoId

ImportScopeStaysOpen(row, id, activeGroup) ==
    IF ImportType(row) = "group" THEN <<id, ImportCategory(row)>>
    ELSE activeGroup

ImportScope(row, id, activeGroup) ==
    IF ImportType(row) = "group" THEN <<id, ImportCategory(row)>>
    ELSE IF activeGroup # <<>> /\ activeGroup[2] = ImportCategory(row) THEN activeGroup
    ELSE <<>>

\* lines 367-387: the record pushed for one row
ImportTask(row, id, activeGroup, lastTaskId, order, today) ==
    [id |-> id, type |-> ImportType(row), category |-> ImportCategory(row),
     planStartDate |-> ImportPlanStart(row, today),
     planEndDate |-> ImportPlanEnd(row, today),
     planDuration |-> ImportDuration(row),
     progress |-> OrElse(ParseFloat(OrText(row.progress, "0")), 0),
     status |-> "not-started",
     actualStartDate |-> NoDate, actualEndDate |-> NoDate,
     progressUpdatedAt |-> NoDate, remarks |-> "",
     order |-> order,
     parentTaskId |-> ImportParent(row, id, activeGroup),
     predecessors |-> IF lastTaskId # NoId /\ ImportType(row) # "group"
                      THEN <<lastTaskId>> ELSE <<>>]

ImportLoopBodyChainsGroups(row, st, firstId, currentMaxOrder, today) ==
    IF row.name = "" THEN st
    ELSE LET id == firstId + st.count
             t == ImportTask(row, id, st.activeGroup, st.lastTaskId,
                             currentMaxOrder + st.count + 1, today)
         IN [activeGroup |-> ImportScope(row, id, st.activeGroup),
             lastTaskId |-> id,
             count |-> st.count + 1,
             tasksToCreate |-> Append(st.tasksToCreate, t)]

\* lines 321-391: one pass of the loop over the rows.  st holds the loop's
\* variables activeGroup, lastTaskId, count and tasksToCreate; ids are taken
\* from firstId upward.
ImportLoopBody(row, st, firstId, currentMaxOrder, today) ==
    IF row.name = "" THEN st
    ELSE LET id == firstId + st.count
             t == ImportTask(row, id, st.activeGroup, st.lastTaskId,
                             currentMaxOrder + st.count + 1, today)
         IN [activeGroup |-> ImportScope(row, id, st.activeGroup),
             lastTaskId |-> IF t.type # "group" THEN id ELSE st.lastTaskId,
             count |-> st.count + 1,
             tasksToCreate |-> Append(st.tasksToCreate, t)]

\* line 321: for (const row of data), the rows lo..hi taken in order from
\* the loop state st.  The range is halved, and the count of the first half
\* is looked at before the second half is begun, so that the evaluation of a
\* long file stays shallow; a count is never negative.
RECURSIVE BuildTasks(_, _, _, _, _, _, _)
BuildTasks(data, lo, hi, st, firstId, currentMaxOrder, today) ==
    IF lo > hi THEN st
    ELSE IF lo = hi THEN ImportLoopBody(data[lo], st, firstId, currentMaxOrder, today)
    ELSE LET mid == (lo + hi) \div 2
             first == BuildTasks(data, lo, mid, st, firstId, currentMaxOrder, today)
         IN IF first.count >= 0
            THEN BuildTasks(data, mid + 1, hi, first, firstId, currentMaxOrder, today)
            ELSE first

\* lines 351-353: format(addDays(parseISO(planStart), duration - 1), ...)
\* throws a RangeError when planStart names no calendar day
RowThrows(row, today) == row.name # "" /\ ImportPlanStart(row, today) = BadDate

ImportThrows(data, today) == \E k \in 1..Len(data) : RowThrows(data[k], today)

\* lines 315-319
TasksToCreate(list, data, firstId, today) ==
    BuildTasks(data, 1, Len(data),
               [activeGroup |-> <<>>,
                lastTaskId |-> IF Len(list) > 0 THEN list[Len(list)].id ELSE NoId,
                count |-> 0,
                tasksToCreate |-> <<>>],
               firstId, MaxOrder(list), today).tasksToCreate

\* line 393
chunkSize == 450

Min(a, b) == IF a <= b THEN a ELSE b

ChunkOneShort(tasksToCreate, i) ==
    SubSeq(tasksToCreate, i + 1, Min(i + chunkSize - 1, Len(tasksToCreate)))

\* line 395: tasksToCreate.slice(i, i + chunkSize), i counted from 0
Chunk(tasksToCreate, i) ==
    SubSeq(tasksToCreate, i + 1, Min(i + chunkSize, Len(tasksToCreate)))

\* line 403: 'Import failed: ' + the message of the error caught
ImportFailureMessages ==
    {"Import failed: Unknown error", "Import failed: File is empty or invalid",
     "Import failed: Invalid time value", "Import failed: batch rejected"}

\* lines 285-307: the file is accepted and confirmed; up to the await of the file
\* reader.  The import button is disabled while an import runs (line 572).
HandleImportFile(data, today) ==
    /\ budget.calls > 0
    /\ Inflight < budget.inflight
    /\ ~importing
    /\ importing' = TRUE
    /\ calls' = calls (+) SetToBag(
            {[kind |-> "read", data |-> data, today |-> today, tasks |-> tasks]})
    /\ budget' = [budget EXCEPT !.calls = @ - 1]
    /\ UNCHANGED <<store, tasks, fetches, nextId, updatingTaskIds, alerts, exported, screen, auth>>

\* the file reader failed: lines 401-407
ImportReadFail(c) ==
    /\ BagIn(c, calls) /\ c.kind = "read"
    /\ calls' = calls (-) SetToBag({c})
    /\ importing' = FALSE
    /\ alerts' = Alert("Import failed: Unknown error", 0)
    /\ UNCHANGED <<store, tasks, fetches, budget, nextId, updatingTaskIds, exported, screen, auth>>

\* lines 309-311: the file holds no row; the error is caught at 401-407
ImportEmpty(c) ==
    /\ BagIn(c, calls) /\ c.kind = "read"
    /\ Len(c.data) = 0
    /\ calls' = calls (-) SetToBag({c})
    /\ importing' = FALSE
    /\ alerts' = Alert("Import failed: File is empty or invalid", 0)
    /\ UNCHANGED <<store, tasks, fetches, budget, nextId, updatingTaskIds, exported, screen, auth>>

\* lines 321-353 and 401-407: the loop over the rows is left by the error
\* that format throws for a row whose start names no calendar day
ImportRowThrows(c) ==
    /\ BagIn(c, calls) /\ c.kind = "read"
    /\ Len(c.data) > 0
    /\ ImportThrows(c.data, c.today)
    /\ calls' = calls (-) SetToBag({c})
    /\ importing' = FALSE
    /\ alerts' = Alert("Import failed: Invalid time value", 0)
    /\ UNCHANGED <<store, tasks, fetches, budget, nextId, updatingTaskIds, exported, screen, auth>>

\* lines 313-399 when no row has a name: no batch is written, lines 399-400, 404-407
ImportNothing(c) ==
    /\ BagIn(c, calls) /\ c.kind = "read"
    /\ Len(c.data) > 0
    /\ ~ImportThrows(c.data, c.today)
    /\ TasksToCreate(c.tasks, c.data, nextId, c.today) = <<>>
    /\ calls' = calls (-) SetToBag({c})
    /\ fetches' = StartFetch(fetches)
    /\ importing' = FALSE
    /\ alerts' = Alert("Import completed", 0)
    /\ UNCHANGED <<store, tasks, budget, nextId, updatingTaskIds, exported, screen, auth>>

\* lines 313-396: the rows are turned into records and the first batch is sent
ImportParsed(c) ==
    /\ BagIn(c, calls) /\ c.kind = "read"
    /\ Len(c.data) > 0
    /\ ~ImportThrows(c.data, c.today)
    /\ LET tasksToCreate == TasksToCreate(c.tasks, c.data, nextId, c.today) IN
        /\ tasksToCreate # <<>>
        /\ nextId + Len(tasksToCreate) - 1 <= budget.tasks
        /\ nextId' = nextId + Len(tasksToCreate)
        /\ calls' = (calls (-) SetToBag({c})) (+) SetToBag(
                {[kind |-> "batch", tasksToCreate |-> tasksToCreate, i |-> 0]})
    /\ UNCHANGED <<store, tasks, fetches, budget, updatingTaskIds, importing, alerts, exported, screen, auth>>

\* batchCreateTasks resolved for the chunk at i: lines 394-400 and 404-407
ImportBatchOk(c) ==
    /\ BagIn(c, calls) /\ c.kind = "batch"
    /\ store' = store \o Chunk(c.tasksToCreate, c.i)
    /\ IF c.i + chunkSize < Len(c.tasksToCreate)
       THEN /\ calls' = (calls (-) SetToBag({c})) (+) SetToBag(
                    {[c EXCEPT !.i = c.i + chunkSize]})
            /\ UNCHANGED <<fetches, importing, alerts>>
       ELSE /\ calls' = calls (-) SetToBag({c})
            /\ alerts' = Alert("Import completed", Len(c.tasksToCreate))
            /\ fetches' = StartFetch(fetches)
            /\ importing' = FALSE
    /\ UNCHANGED <<tasks, budget, nextId, updatingTaskIds, exported, screen, auth>>

ImportBatchFailRollsBack(c) ==
    /\ BagIn(c, calls) /\ c.kind = "batch"
    /\ store' = SubSeq(store, 1, Len(store) - c.i)
    /\ calls' = calls (-) SetToBag({c})
    /\ importing' = FALSE
    /\ alerts' = Alert("Import failed: batch rejected", 0)
    /\ UNCHANGED <<tasks, fetches, budget, nextId, updatingTaskIds, exported, screen, auth>>

\* batchCreateTasks rejected: lines 401-407
ImportBatchFail(c) ==
    /\ BagIn(c, calls) /\ c.kind = "batch"
    /\ calls' = calls (-) SetToBag({c})
    /\ importing' = FALSE
    /\ alerts' = Alert("Import failed: batch rejected", 0)
    /\ UNCHANGED <<store, tasks, fetches, budget, nextId, updatingTaskIds, exported, screen, auth>>

\* the rows entered: a named row per progress cell, and a row without a name
ImportRow(name, progress) ==
    [name |-> name, category |-> "", type |-> "", duration |-> "2",
     start |-> DateCell("blank", NoDate), progress |-> progress]

ImportRows == {ImportRow("T", p) : p \in {"", "60", "100", "150"}} \cup {ImportRow("", "")}

ImportFiles == {<<>>} \cup {<<r>> : r \in ImportRows}

\* ---------------------------------------------------------- handleExport
\* the text [..].join(',') writes for a number
NumberCell(n) ==
    CASE n = 0 -> "0"
      [] n = -5 -> "-5"
      [] n = -3 -> "-3"
      [] n = 1 -> "1"
      [] n = 2 -> "2"
      [] n = 3 -> "3"
      [] n = 60 -> "60"
      [] n = 100 -> "100"
      [] n = 150 -> "150"

\* lines 450-466: the row of a task, under the headers of lines 413-429, as
\* parseCSV hands it back; the model's tasks all have a name.  The Plan End
\* column is written, and no line of handleImportFile reads it.
ExportRow(task) ==
    [name |-> "T",
     category |-> OrText(task.category, ""),
     type |-> OrText(task.type, "task"),
     start |-> DateCell("iso", task.planStartDate),
     planEnd |-> DateCell("iso", task.planEndDate),
     duration |-> NumberCell(OrElse(task.planDuration, 0)),
     progress |-> NumberCell(OrElse(task.progress, 0))]

\* lines 410-475
HandleExport ==
    /\ Len(tasks) > 0
    /\ exported' = [i \in 1..Len(tasks) |-> ExportRow(tasks[i])]
    /\ UNCHANGED <<store, tasks, calls, fetches, budget, nextId, updatingTaskIds,
                   importing, alerts, screen, auth>>

\* ------------------------------------------------------------- calendar
\* A Date is modelled by its day number; day 0 is Friday 1 December 2023,
\* so that the days modelled cross a month end, a year end and a leap
\* February.
MonthLengths == <<31, 31, 29, 31, 30>>

RECURSIVE MonthStart(_)
MonthStart(m) == IF m = 1 THEN 0 ELSE MonthStart(m - 1) + MonthLengths[m - 1]

\* the month a day lies in, counted from 1 = December 2023
MonthIndex(d) ==
    CHOOSE m \in 1..Len(MonthLengths) :
        MonthStart(m) <= d /\ d < MonthStart(m) + MonthLengths[m]

\* Date.getDay(): 0 is Sunday
GetDay(d) == (d + 5) % 7

\* Date.getMonth(): 0 is January
GetMonth(d) == (MonthIndex(d) + 10) % 12

GetFullYear(d) == 2023 + ((MonthIndex(d) + 10) \div 12)

\* date-fns startOfWeek and endOfWeek with { weekStartsOn }
StartOfWeek(d, weekStartsOn) ==
    d - ((IF GetDay(d) < weekStartsOn THEN 7 ELSE 0) + GetDay(d) - weekStartsOn)

EndOfWeek(d, weekStartsOn) ==
    d + ((IF GetDay(d) < weekStartsOn THEN -7 ELSE 0) + 6 - (GetDay(d) - weekStartsOn))

SubWeeks(d, n) == d - 7 * n

AddWeeks(d, n) == d + 7 * n

\* ------------------------------------------------------------ page view
ViewModes == {"day", "week", "month"}

\* FourWeekRange with weeks that start on Sunday
FourWeekRangeSundayWeeks(today) ==
    [startDate |-> StartOfWeek(SubWeeks(today, 1), 0),
     endDate |-> EndOfWeek(AddWeeks(today, 2), 0)]

\* lines 273-281; useMemo with no dependencies: computed once, from the
\* day the page is first rendered
FourWeekRange(today) ==
    [startDate |-> StartOfWeek(SubWeeks(today, 1), 1),
     endDate |-> EndOfWeek(AddWeeks(today, 2), 1)]

\* lines 282-283
EffectiveStartDate ==
    IF windowMode = "4w" THEN fourWeekRange.startDate ELSE selectedProject.startDate

EffectiveEndDate ==
    IF windowMode = "4w" THEN fourWeekRange.endDate ELSE selectedProject.endDate

\* line 632
AllowedViewModes == IF windowMode = "4w" THEN {"day"} ELSE {"day", "week", "month"}

\* line 631: onViewModeChange={setChartViewMode}
SetChartViewMode(mode) ==
    /\ chartViewMode' = mode
    /\ UNCHANGED <<ctl, windowMode, mountDate, fourWeekRange, selectedProject, props, rendered,
                   auth>>

\* ForceDayView as an effect that only leaves the month view
ForceDayViewFromMonthOnly ==
    /\ windowMode = "4w"
    /\ chartViewMode = "month"
    /\ chartViewMode' = "day"
    /\ UNCHANGED <<ctl, windowMode, mountDate, fourWeekRange, selectedProject, props, rendered,
                   auth>>

\* lines 91-95: the effect that runs after a render in 4-week mode
ForceDayView ==
    /\ windowMode = "4w"
    /\ chartViewMode # "day"
    /\ chartViewMode' = "day"
    /\ UNCHANGED <<ctl, windowMode, mountDate, fourWeekRange, selectedProject, props, rendered,
                   auth>>

\* no chart component has been given props, none has been rendered
Nothing == [component |-> "none"]

\* the page as first rendered on the day today: lines 33-45 and 273-281
PageOpened(mode, today, project) ==
    /\ windowMode = mode
    /\ chartViewMode = "day"
    /\ mountDate = today
    /\ fourWeekRange = FourWeekRange(today)
    /\ selectedProject = project
    /\ exported = <<>>
    /\ props = Nothing
    /\ rendered = Nothing

\* ------------------------------------------------------ timeline generator
\* generate(startDate, endDate, zoom), as its contract states it: the items
\* of a zoom level, in chronological order: every day of the range, the
\* Monday of every week that overlaps it, the 1st of every month that
\* overlaps it
ItemsOf(startDate, endDate, zoom) ==
    CASE zoom = "day" -> [i \in 1..(endDate - startDate + 1) |-> startDate + i - 1]
      [] zoom = "week" ->
            [i \in 1..((StartOfWeek(endDate, 1) - StartOfWeek(startDate, 1)) \div 7 + 1) |->
                StartOfWeek(startDate, 1) + 7 * (i - 1)]
      [] zoom = "month" ->
            [i \in 1..(MonthIndex(endDate) - MonthIndex(startDate) + 1) |->
                MonthStart(MonthIndex(startDate) + i - 1)]

\* the (year, month) pair of an item, or its year in month zoom
GroupKey(zoom, item) ==
    IF zoom = "month" THEN <<GetFullYear(item)>> ELSE <<GetFullYear(item), GetMonth(item)>>

\* the distinct groups of the items, in chronological order: one Date per
\* group, the first item that lies in it
RECURSIVE GroupsOf(_, _, _)
GroupsOf(zoom, items, n) ==
    IF n = 0 THEN <<>>
    ELSE IF n > 1 /\ GroupKey(zoom, items[n]) = GroupKey(zoom, items[n - 1])
         THEN GroupsOf(zoom, items, n - 1)
         ELSE Append(GroupsOf(zoom, items, n - 1), items[n])

Generate(startDate, endDate, zoom) ==
    LET items == ItemsOf(startDate, endDate, zoom)
    IN  [items |-> items, groups |-> GroupsOf(zoom, items, Len(items))]

\* --------------------------------------------------------- TimelineHeader
\* items.filter(item => same month and year as date).length
CountInMonth(items, date) ==
    Cardinality({i \in 1..Len(items) : /\ GetMonth(items[i]) = GetMonth(date)
                                       /\ GetFullYear(items[i]) = GetFullYear(date)})

\* GroupWidth with the width of the whole calendar month or year
GroupWidthOfCalendar(viewMode, timeline, cellWidth, group) ==
    IF viewMode = "day" THEN MonthLengths[MonthIndex(group)] * cellWidth
    ELSE IF viewMode = "week" THEN 4 * cellWidth
    ELSE 12 * cellWidth

\* lines 762-783
GroupWidth(viewMode, timeline, cellWidth, group) ==
    IF viewMode = "day" \/ viewMode = "week"
    THEN CountInMonth(timeline.items, group) * cellWidth
    ELSE IF viewMode = "month"
    THEN Cardinality({i \in 1..Len(timeline.items) :
                        GetFullYear(timeline.items[i]) = GetFullYear(group)}) * cellWidth
    ELSE 12 * cellWidth

\* format(item, 'd')
DayOfMonth(d) == d - MonthStart(MonthIndex(d)) + 1

\* ItemLabel with the position of the week in the whole timeline
ItemLabelOfPosition(viewMode, items, idx) ==
    IF viewMode = "day" THEN DayOfMonth(items[idx])
    ELSE IF viewMode = "week" THEN idx
    ELSE GetMonth(items[idx])

\* lines 800-813; the label of a month is its month name, modelled by getMonth
ItemLabel(viewMode, items, idx) ==
    IF viewMode = "day" THEN DayOfMonth(items[idx])
    ELSE IF viewMode = "week"
    THEN CountInMonth(SubSeq(items, 1, idx), items[idx])
    ELSE GetMonth(items[idx])

\* lines 758-826: the two rows of the header
TimelineHeader(p) ==
    [groupWidths |-> [g \in 1..Len(p.timeline.groups) |->
                        GroupWidth(p.viewMode, p.timeline, p.cellWidth, p.timeline.groups[g])],
     labels |-> [idx \in 1..Len(p.timeline.items) |->
                        ItemLabel(p.viewMode, p.timeline.items, idx)]]

RenderTimelineHeader ==
    /\ props.component = "TimelineHeader"
    /\ rendered' = [component |-> "TimelineHeader"] @@ TimelineHeader(props)
    /\ UNCHANGED <<ctl, windowMode, chartViewMode, mountDate, fourWeekRange,
                   selectedProject, props, auth>>

\* ------------------------------------------------------------ SCurveGraph
\* line 33
TimelineStart(p) ==
    IF Len(p.timeline.items) > 0 THEN p.timeline.items[1] ELSE p.timeRange.start

\* date-fns differenceInDays on two dates at the same time of day
DifferenceInDays(dateLeft, dateRight) == dateLeft - dateRight

\* GetX measured from the start of the time range instead of the first item
GetXFromRangeStart(p, date) ==
    LET diff == DifferenceInDays(date, p.timeRange.start)
    IN  IF p.viewMode = "day" THEN [num |-> diff * p.cellWidth, den |-> 1]
        ELSE IF p.viewMode = "week" THEN [num |-> diff * p.cellWidth, den |-> 7]
        ELSE [num |-> diff * p.cellWidth * 100, den |-> 3044]

\* lines 35-41: the offset in pixels, as the fraction num / den
GetX(p, date) ==
    LET diff == DifferenceInDays(date, TimelineStart(p))
    IN  IF p.viewMode = "day" THEN [num |-> diff * p.cellWidth, den |-> 1]
        ELSE IF p.viewMode = "week" THEN [num |-> diff * p.cellWidth, den |-> 7]
        ELSE [num |-> diff * p.cellWidth * 100, den |-> 3044]

\* lines 43-45, on whole percentages and a height that is a multiple of 100
GetY(p, val) == p.height - (val * p.height) \div 100

\* ActualPoints without the point of maxActualDate itself
ActualPointsBefore(points, maxActualDate) ==
    SelectSeq(points, LAMBDA pt : pt.date < maxActualDate)

\* line 52
ActualPoints(points, maxActualDate) ==
    SelectSeq(points, LAMBDA pt : pt.date <= maxActualDate)

\* lines 98-173: the grid lines, the two curves and the label at the end of
\* the actual curve; line 121 reads points[points.length - 1].date, which
\* throws on an empty series, and then nothing is drawn
SCurveGraph(p) ==
    LET points == p.data.points
        actualPoints == ActualPoints(points, p.data.maxActualDate)
    IN  IF Len(points) = 0
        THEN [threw |-> TRUE, gridLines |-> <<>>, planLine |-> <<>>,
              actualLine |-> <<>>, actualEndLabel |-> <<>>]
        ELSE [threw |-> FALSE,
              gridLines |-> [i \in 1..Len(p.timeline.items) |-> (i - 1) * p.cellWidth],
              planLine |-> [k \in 1..Len(points) |->
                              [x |-> GetX(p, points[k].date), y |-> GetY(p, points[k].plan)]],
              actualLine |-> [k \in 1..Len(actualPoints) |->
                              [x |-> GetX(p, actualPoints[k].date),
                               y |-> GetY(p, actualPoints[k].actual)]],
              actualEndLabel |->
                  IF Len(actualPoints) > 0
                  THEN LET lastActualPoint == actualPoints[Len(actualPoints)]
                       IN  <<[x |-> GetX(p, lastActualPoint.date),
                              y |-> GetY(p, lastActualPoint.actual),
                              value |-> lastActualPoint.actual]>>
                  ELSE <<>>]

RenderSCurveGraph ==
    /\ props.component = "SCurveGraph"
    /\ rendered' = [component |-> "SCurveGraph"] @@ SCurveGraph(props)
    /\ UNCHANGED <<ctl, windowMode, chartViewMode, mountDate, fourWeekRange,
                   selectedProject, props, auth>>

\* ------------------------------------------------------------ AuthProvider
\* A member is a record [id, email]; a member document without an email has
\* email "".  NoUser is the user null.
NoUser == [id |-> NoId, email |-> ""]

\* localStorage.getItem('srt-hst-user'): no item, text that JSON.parse
\* rejects, or the text JSON.stringify wrote for a member
NoItem == [kind |-> "none", id |-> NoId, email |-> ""]

CorruptItem == [kind |-> "corrupt", id |-> NoId, email |-> ""]

Stringify(member) == [kind |-> "json", id |-> member.id, email |-> member.email]

Parse(item) == [id |-> item.id, email |-> item.email]

\* text.trim().toLowerCase() on the addresses typed and stored
CleanEmail(text) ==
    CASE text = " A@X.co " -> "a@x.co"
      [] text = "A@x.co " -> "a@x.co"
      [] text = "  " -> ""
      [] OTHER -> text

\* FindByEmail that compares the stored address as it is
FindByEmailAsStored(list, cleanEmail) ==
    LET found == {i \in 1..Len(list) : OrText(list[i].email, "") = cleanEmail}
    IN  IF found = {} THEN NoUser
        ELSE list[CHOOSE i \in found : \A j \in found : i <= j]

\* line 47: members.find(m => (m.email || '').trim().toLowerCase() === cleanEmail)
FindByEmail(list, cleanEmail) ==
    LET found == {i \in 1..Len(list) : CleanEmail(OrText(list[i].email, "")) = cleanEmail}
    IN  IF found = {} THEN NoUser
        ELSE list[CHOOSE i \in found : \A j \in found : i <= j]

\* line 75: members.find(m => m.id === user.id)
FindById(list, id) ==
    LET found == {i \in 1..Len(list) : list[i].id = id}
    IN  IF found = {} THEN NoUser
        ELSE list[CHOOSE i \in found : \A j \in found : i <= j]

\* line 92
IsAuthenticated == user # NoUser

\* lines 19-20: the provider as constructed, over the member documents and
\* the item the browser holds
AuthProvider(list, item) ==
    /\ members = list
    /\ localStorage = item
    /\ user = NoUser
    /\ loading = TRUE
    /\ authCalls = EmptyBag
    /\ loginResults = <<>>

\* lines 23-35: the effect of the first render
MountCheck ==
    /\ loading
    /\ IF localStorage.kind = "json"
       THEN user' = Parse(localStorage) /\ UNCHANGED localStorage
       ELSE IF localStorage.kind = "corrupt"
       THEN localStorage' = NoItem /\ UNCHANGED user
       ELSE UNCHANGED <<user, localStorage>>
    /\ loading' = FALSE
    /\ UNCHANGED <<ctl, screen, members, authCalls, loginResults>>

\* lines 37-43: up to `await getMembers()`
Login(email) ==
    /\ ~loading
    /\ budget.calls > 0
    /\ BagCardinality(authCalls) < budget.inflight
    /\ authCalls' = authCalls (+) SetToBag(
            {[kind |-> "login", email |-> email, cleanEmail |-> CleanEmail(email),
              userId |-> NoId]})
    /\ budget' = [budget EXCEPT !.calls = @ - 1]
    /\ UNCHANGED <<store, tasks, calls, fetches, nextId, updatingTaskIds, importing, alerts,
                   exported, screen, members, localStorage, user, loading, loginResults>>

\* lines 44-58: getMembers resolved
LoginResolved(c) ==
    /\ BagIn(c, authCalls) /\ c.kind = "login"
    /\ authCalls' = authCalls (-) SetToBag({c})
    /\ LET member == FindByEmail(members, c.cleanEmail) IN
        IF member = NoUser
        THEN /\ loginResults' = Append(loginResults, [email |-> c.email, success |-> FALSE])
             /\ UNCHANGED <<user, localStorage>>
        ELSE /\ user' = member
             /\ localStorage' = Stringify(member)
             /\ loginResults' = Append(loginResults, [email |-> c.email, success |-> TRUE])
    /\ UNCHANGED <<ctl, screen, members, loading>>

\* lines 59-62: getMembers rejected
LoginRejected(c) ==
    /\ BagIn(c, authCalls) /\ c.kind = "login"
    /\ authCalls' = authCalls (-) SetToBag({c})
    /\ loginResults' = Append(loginResults, [email |-> c.email, success |-> FALSE])
    /\ UNCHANGED <<ctl, screen, members, localStorage, user, loading>>

\* Logout that leaves the stored item in place
LogoutKeepsItem ==
    /\ ~loading
    /\ user # NoUser
    /\ user' = NoUser
    /\ UNCHANGED <<ctl, screen, members, localStorage, loading, authCalls, loginResults>>

\* lines 65-68
Logout ==
    /\ ~loading
    /\ user' = NoUser
    /\ localStorage' = NoItem
    /\ UNCHANGED <<ctl, screen, members, loading, authCalls, loginResults>>

\* lines 70-74: up to `await getMembers()`; without a user the call returns
RefreshUser ==
    /\ ~loading
    /\ user # NoUser
    /\ budget.calls > 0
    /\ BagCardinality(authCalls) < budget.inflight
    /\ authCalls' = authCalls (+) SetToBag(
            {[kind |-> "refresh", email |-> "", cleanEmail |-> "", userId |-> user.id]})
    /\ budget' = [budget EXCEPT !.calls = @ - 1]
    /\ UNCHANGED <<store, tasks, calls, fetches, nextId, updatingTaskIds, importing, alerts,
                   exported, screen, members, localStorage, user, loading, loginResults>>

\* lines 75-80: getMembers resolved
RefreshResolved(c) ==
    /\ BagIn(c, authCalls) /\ c.kind = "refresh"
    /\ authCalls' = authCalls (-) SetToBag({c})
    /\ LET updatedUser == FindById(members, c.userId) IN
        IF updatedUser = NoUser
        THEN UNCHANGED <<user, localStorage>>
        ELSE /\ user' = updatedUser
             /\ localStorage' = Stringify(updatedUser)
    /\ UNCHANGED <<ctl, screen, members, loading, loginResults>>

\* lines 81-83: getMembers rejected; logged only
RefreshRejected(c) ==
    /\ BagIn(c, authCalls) /\ c.kind = "refresh"
    /\ authCalls' = authCalls (-) SetToBag({c})
    /\ UNCHANGED <<ctl, screen, members, localStorage, user, loading, loginResults>>

\* ------------------------------------------------------------------ spec
\* Task lists the collaborator may hold when the page is opened: a task as
\* handleAddTask stores it, and one whose work is under way.
FreshTask == NewTask(1, 2, 3, 2, 1)

StartedTask ==
    [FreshTask EXCEPT !.progress = 60, !.status = "in-progress",
                      !.actualStartDate = 2, !.progressUpdatedAt = 2]

CtlInit(list, n, k) ==
    /\ store = list
    /\ tasks = list
    /\ calls = EmptyBag
    /\ fetches = EmptyBag
    /\ budget = [calls |-> n, inflight |-> k, tasks |-> MaxTasks]
    /\ nextId = Len(list) + 1
    /\ updatingTaskIds = {}
    /\ importing = FALSE
    /\ alerts = <<>>

\* the page under a provider that holds no session
SignedOut == AuthProvider(<<>>, NoItem)

InitWith(list, n, k) ==
    /\ CtlInit(list, n, k)
    /\ PageOpened("project", 14, [startDate |-> 1, endDate |-> 3])
    /\ SignedOut

Fetching ==
    \/ \E f \in BagToSet(fetches) : GetTasksRead(f)
    \/ \E f \in BagToSet(fetches) : FetchTasksOk(f)
    \/ \E f \in BagToSet(fetches) : FetchTasksFail(f)

\* The whole controller.
Init == InitWith(<<FreshTask>>, MaxCtlCalls, MaxCtlInflight)

Next ==
    \/ \E taskId \in 1..MaxTasks, p \in ProgressInputs, d \in Dates, r \in Reasons :
            HandleProgressUpdate(taskId, p, d, r)
    \/ \E c \in BagToSet(calls) : ProgressUpdateOk(c)
    \/ \E c \in BagToSet(calls) : ProgressUpdateFail(c)
    \/ \E taskId \in 1..MaxTasks, u \in ScheduleUpdates : HandleTaskUpdate(taskId, u)
    \/ \E c \in BagToSet(calls) : TaskUpdateOk(c)
    \/ \E c \in BagToSet(calls) : TaskUpdateFail(c)
    \/ \E dc \in {"abc", "2"}, s \in Dates, parent \in 0..MaxTasks, autoLink \in BOOLEAN :
            HandleAddTask(dc, s, parent, autoLink)
    \/ \E c \in BagToSet(calls) : AddTaskOk(c)
    \/ \E c \in BagToSet(calls) : AddTaskFail(c)
    \/ \E data \in ImportFiles, today \in Dates : HandleImportFile(data, today)
    \/ \E c \in BagToSet(calls) : ImportReadFail(c)
    \/ \E c \in BagToSet(calls) : ImportEmpty(c)
    \/ \E c \in BagToSet(calls) : ImportNothing(c)
    \/ \E c \in BagToSet(calls) : ImportParsed(c)
    \/ \E c \in BagToSet(calls) : ImportBatchOk(c)
    \/ \E c \in BagToSet(calls) : ImportBatchFail(c)
    \/ Fetching

Spec == Init /\ [][Next]_vars

\* Progress updates alone, on a persisted task list.
InitProgress ==
    \E list \in {<<FreshTask>>, <<StartedTask>>} : InitWith(list, MaxCalls, MaxInflight)

NextProgress ==
    \/ \E taskId \in 1..MaxTasks, p \in ProgressInputs, d \in Dates, r \in Reasons :
            HandleProgressUpdate(taskId, p, d, r)
    \/ \E c \in BagToSet(calls) : ProgressUpdateOk(c)
    \/ \E c \in BagToSet(calls) : ProgressUpdateFail(c)
    \/ Fetching

SpecProgress == InitProgress /\ [][NextProgress]_vars

\* Progress updates that overlap: a second call may be made while the write
\* or the re-fetch of the first is still under way.
InitRace ==
    \E list \in {<<FreshTask>>, <<StartedTask>>} : InitWith(list, MaxRaceCalls, MaxRaceInflight)

SpecRace == InitRace /\ [][NextProgress]_vars

\* Schedule updates that overlap: the chart may request a second change of a
\* bar while the write or the re-fetch of an earlier one is still under way.
NextSchedule ==
    \/ \E taskId \in 1..MaxTasks, u \in ScheduleUpdates : HandleTaskUpdate(taskId, u)
    \/ \E c \in BagToSet(calls) : TaskUpdateOk(c)
    \/ \E c \in BagToSet(calls) : TaskUpdateFail(c)
    \/ Fetching

SpecSchedule == InitRace /\ [][NextSchedule]_vars

\* Overlapping schedule updates with a collaborator whose getTasks never
\* rejects: every fetchTasks that is started delivers its reply.
NextSync ==
    \/ \E taskId \in 1..MaxTasks, u \in ScheduleUpdates : HandleTaskUpdate(taskId, u)
    \/ \E c \in BagToSet(calls) : TaskUpdateOk(c)
    \/ \E c \in BagToSet(calls) : TaskUpdateFail(c)
    \/ \E f \in BagToSet(fetches) : GetTasksRead(f)
    \/ \E f \in BagToSet(fetches) : FetchTasksOk(f)

SpecSync == InitRace /\ [][NextSync]_vars

\* Creation alone: one handleAddTask or one handleImportFile call per run, on
\* the task list Init draws.  The files are short ones over the cells that
\* decide the group scope and the predecessor chain, one-row files over the
\* Duration and Start Date cells, and long files that need several batches.
MaxRows == 4
MaxBatches == 2

DurationCells == {"", "abc", "0", "-3", "2"}

ImportCell(name, category, type, duration, start) ==
    [name |-> name, category |-> category, type |-> type, duration |-> duration,
     start |-> start, progress |-> ""]

ScopeRows ==
    {ImportCell("T", cat, ty, "2", DateCell("blank", NoDate)) :
        cat \in {"", "A"}, ty \in {"", "group"}}
    \cup {ImportCell("", "A", "", "2", DateCell("blank", NoDate))}

DurationRows ==
    {ImportCell("T", "", "", dc, st) :
        dc \in DurationCells,
        st \in {DateCell("blank", NoDate)} \cup {DateCell("iso", d) : d \in Dates}}

StartCells ==
    {DateCell(k, NoDate) : k \in {"blank", "dash", "other", "shaped"}}
    \cup {DateCell("iso", d) : d \in Dates}

StartRows == {ImportCell("T", "", "", "2", st) : st \in StartCells}

LongFile(n) == [i \in 1..n |-> ImportRow("T", "")]

CreateFiles ==
    UNION {[1..n -> ScopeRows] : n \in 0..MaxRows}
    \cup {<<r>> : r \in DurationRows}
    \cup {<<r1, r2>> : r1 \in StartRows, r2 \in StartRows}
    \cup {LongFile(k * chunkSize + r) : k \in 1..MaxBatches, r \in {0, 1}}

GroupTask == [FreshTask EXCEPT !.type = "group", !.category = "A"]

\* a list whose highest order is not that of its last task, as a reordering
\* leaves it
ReorderedList == <<[FreshTask EXCEPT !.order = 3], [GroupTask EXCEPT !.id = 2, !.order = 2]>>

InitCreate ==
    /\ \E list \in {<<>>, <<FreshTask>>, <<GroupTask>>, ReorderedList} :
        /\ store = list
        /\ tasks = list
        /\ nextId = Len(list) + 1
    /\ calls = EmptyBag
    /\ fetches = EmptyBag
    /\ budget = [calls |-> 1, inflight |-> 1, tasks |-> MaxBatches * chunkSize + 3]
    /\ updatingTaskIds = {}
    /\ importing = FALSE
    /\ alerts = <<>>
    /\ PageOpened("project", 14, [startDate |-> 1, endDate |-> 3])
    /\ SignedOut

NextCreate ==
    \/ \E dc \in DurationCells, s \in Dates, parent \in 0..MaxTasks, autoLink \in BOOLEAN :
            HandleAddTask(dc, s, parent, autoLink)
    \/ \E c \in BagToSet(calls) : AddTaskOk(c)
    \/ \E c \in BagToSet(calls) : AddTaskFail(c)
    \/ /\ budget.calls > 0   \* no file is drawn for a call that cannot be made
       /\ \E data \in CreateFiles, today \in Dates : HandleImportFile(data, today)
    \/ \E c \in BagToSet(calls) : ImportReadFail(c)
    \/ \E c \in BagToSet(calls) : ImportEmpty(c)
    \/ \E c \in BagToSet(calls) : ImportRowThrows(c)
    \/ \E c \in BagToSet(calls) : ImportNothing(c)
    \/ \E c \in BagToSet(calls) : ImportParsed(c)
    \/ \E c \in BagToSet(calls) : ImportBatchOk(c)
    \/ \E c \in BagToSet(calls) : ImportBatchFail(c)
    \/ Fetching

SpecCreate == InitCreate /\ [][NextCreate]_vars

\* The view state of the page alone: the page is opened in either window
\* mode, on any of MaxToday consecutive days, on a project that lies inside
\* or outside the four weeks; the chart then requests view modes, and in
\* 4-week mode the effect of lines 91-95 runs after each render.
MaxToday == 14

TodayValues == 14..(13 + MaxToday)

Projects == {[startDate |-> 1, endDate |-> 3], [startDate |-> 20, endDate |-> 60]}

InitWindow ==
    /\ CtlInit(<<FreshTask>>, 0, 0)
    /\ \E mode \in {"project", "4w"}, today \in TodayValues, project \in Projects :
            PageOpened(mode, today, project)
    /\ SignedOut

NextWindow ==
    \/ \E mode \in ViewModes : SetChartViewMode(mode)
    \/ ForceDayView

SpecWindow == InitWindow /\ [][NextWindow]_vars

\* React runs the effects of a render once the render is committed
SpecWindowFair == SpecWindow /\ WF_vars(ForceDayView)

\* The chart components alone: the chart hands the timeline of a date range
\* to TimelineHeader and to SCurveGraph, and each is rendered.  The ranges
\* start early, in the middle and at the end of a month and a week, and
\* last from one day up to MaxSpan + 1 days, or about three months.
MaxSpan == 40

HeaderProps ==
    {[component |-> "TimelineHeader", viewMode |-> zoom, cellWidth |-> w,
      timeline |-> Generate(startDate, startDate + span, zoom)] :
        zoom \in ViewModes, w \in {30, 40}, startDate \in {3, 17, 31, 50, 62},
        span \in (0..MaxSpan) \cup {75, 89}}

\* a series with one point per timeline item, plan and actual as cumulative
\* whole percentages
SeriesOf(items) ==
    [k \in 1..Len(items) |->
        [date |-> items[k], plan |-> (k * 100) \div Len(items),
         actual |-> (k * 60) \div Len(items)]]

\* maxActualDate lies before the range, at its start, inside it or after it
GraphProps ==
    {[component |-> "SCurveGraph", viewMode |-> zoom, cellWidth |-> w, height |-> 200,
      timeline |-> Generate(startDate, startDate + span, zoom),
      timeRange |-> [start |-> startDate],
      data |-> [points |-> IF empty THEN <<>>
                           ELSE SeriesOf(Generate(startDate, startDate + span, zoom).items),
                maxActualDate |-> startDate + offset]] :
        zoom \in ViewModes, w \in {40}, startDate \in {20, 31}, span \in 0..MaxSpan,
        empty \in BOOLEAN, offset \in {-8, 0, 3, 14, 60}}

InitRender ==
    /\ CtlInit(<<FreshTask>>, 0, 0)
    /\ windowMode = "project"
    /\ chartViewMode = "day"
    /\ mountDate = 14
    /\ fourWeekRange = FourWeekRange(14)
    /\ selectedProject = [startDate |-> 1, endDate |-> 3]
    /\ exported = <<>>
    /\ props \in HeaderProps \cup GraphProps
    /\ rendered = Nothing
    /\ SignedOut

NextRender ==
    \/ RenderTimelineHeader
    \/ RenderSCurveGraph

SpecRender == InitRender /\ [][NextRender]_vars

\* The auth session alone: the provider is mounted over one of the member
\* lists and one of the stored items, and login, logout and refreshUser are
\* called in any order, also while an earlier getMembers is under way.
MaxAuthCalls == 2
MaxAuthInflight == 2

MemberA == [id |-> 1, email |-> "A@x.co "]

MemberLists ==
    {<<>>,
     <<MemberA, [id |-> 2, email |-> "b@x.co"]>>,
     <<[id |-> 1, email |-> "a2@x.co"], [id |-> 3, email |-> ""]>>}

LoginEmails == {" A@X.co ", "a@x.co", "b@x.co", "c@x.co", "  "}

InitAuth ==
    /\ CtlInit(<<>>, MaxAuthCalls, MaxAuthInflight)
    /\ PageOpened("project", 14, [startDate |-> 1, endDate |-> 3])
    /\ \E list \in MemberLists, item \in {NoItem, CorruptItem, Stringify(MemberA)} :
            AuthProvider(list, item)

NextAuth ==
    \/ MountCheck
    \/ \E email \in LoginEmails : Login(email)
    \/ \E c \in BagToSet(authCalls) : LoginResolved(c)
    \/ \E c \in BagToSet(authCalls) : LoginRejected(c)
    \/ Logout
    \/ RefreshUser
    \/ \E c \in BagToSet(authCalls) : RefreshResolved(c)
    \/ \E c \in BagToSet(authCalls) : RefreshRejected(c)

SpecAuth == InitAuth /\ [][NextAuth]_vars

\* Export and re-import: the task list is exported and the exported rows
\* (without the instruction row) are imported again.  The tasks are as the
\* handlers leave them: with and without a category, with a planDuration that
\* is 0, that agrees with the plan dates, or that does not.
RoundTripTasks ==
    {[NewTask(1, 2, 3, dur, 1) EXCEPT !.category = cat, !.progress = p] :
        cat \in {"", "A"}, dur \in {0, 2, 3}, p \in {0, 60}}

RoundTripLists ==
    {<<t>> : t \in RoundTripTasks}
    \cup {<<t, [u EXCEPT !.id = 2, !.order = 2]>> : t \in RoundTripTasks, u \in RoundTripTasks}

InitRoundTrip ==
    /\ \E list \in RoundTripLists :
        /\ store = list
        /\ tasks = list
        /\ nextId = Len(list) + 1
    /\ calls = EmptyBag
    /\ fetches = EmptyBag
    /\ budget = [calls |-> 1, inflight |-> 1, tasks |-> 4]
    /\ updatingTaskIds = {}
    /\ importing = FALSE
    /\ alerts = <<>>
    /\ PageOpened("project", 14, [startDate |-> 1, endDate |-> 3])
    /\ SignedOut

NextRoundTrip ==
    \/ HandleExport
    \/ /\ exported # <<>>
       /\ \E today \in Dates : HandleImportFile(exported, today)
    \/ \E c \in BagToSet(calls) : ImportReadFail(c)
    \/ \E c \in BagToSet(calls) : ImportParsed(c)
    \/ \E c \in BagToSet(calls) : ImportBatchOk(c)
    \/ \E c \in BagToSet(calls) : ImportBatchFail(c)
    \/ Fetching

SpecRoundTrip == InitRoundTrip /\ [][NextRoundTrip]_vars

\* ---------------------------------------------------------------- claims
\* the handleProgressUpdate invocations waiting for updateTask
ProgressCalls == {c \in BagToSet(calls) : c.kind = "progress"}

\* the task the handler read, with the fields it hands to updateTask merged in
Written(c) == Merge(c.task, c.data)

Writes(c, field) == field \in DOMAIN c.data

StoredTasks == {store[i] : i \in 1..Len(store)}

\* C1: every stored task has progress = 100 exactly when its status is
\* completed, and exactly when its actualEndDate is set (so a task below 100
\* has no actualEndDate).
C1_CompletionTriple ==
    \A t \in StoredTasks :
        /\ (t.progress = 100) <=> (t.status = "completed")
        /\ (t.status = "completed") <=> (t.actualEndDate # NoDate)

\* C2: an updateProgress call with progress 100 and update date d writes
\* status completed and actualEndDate d, whatever the task's state was.
C2_HundredCompletes ==
    \A c \in ProgressCalls :
        c.newProgress = 100 =>
            /\ Writes(c, "status") /\ c.data.status = "completed"
            /\ Writes(c, "actualEndDate") /\ c.data.actualEndDate = c.updateDate
            /\ Written(c).progress = 100

C2_Witness ==
    \E c \in ProgressCalls :
        /\ c.newProgress = 100
        /\ c.task.status = "in-progress"
        /\ c.task.actualStartDate # NoDate
        /\ c.updateDate # c.task.planEndDate

\* C3: an updateProgress call with 0 < progress <= 100 on a task without an
\* actualStartDate writes actualStartDate = planStartDate; below 100 the
\* status becomes in-progress and the task has no actualEndDate.
C3_StartDefaultsToPlan ==
    \A c \in ProgressCalls :
        (0 < c.newProgress /\ c.newProgress <= 100 /\ c.task.actualStartDate = NoDate) =>
            /\ Writes(c, "actualStartDate")
            /\ c.data.actualStartDate = c.task.planStartDate
            /\ c.newProgress < 100 =>
                  /\ Written(c).status = "in-progress"
                  /\ Written(c).actualEndDate = NoDate

C3_Witness ==
    \E c \in ProgressCalls :
        /\ c.newProgress = 60
        /\ c.task.actualStartDate = NoDate
        /\ c.updateDate # c.task.planStartDate
        /\ Written(c).actualStartDate = c.task.planStartDate

\* C4 as claimed: once a task has an actualStartDate it is the minimum of the
\* update dates recorded since work started, call by call: the call that
\* starts work leaves its own update date, every later call leaves the
\* smaller of the previous actualStartDate and its update date.
C4_MinOfUpdateDates ==
    \A c \in ProgressCalls :
        Written(c).actualStartDate # NoDate =>
            Written(c).actualStartDate =
                IF c.task.actualStartDate = NoDate THEN c.updateDate
                ELSE Min(c.task.actualStartDate, c.updateDate)

\* C4 as amended: on a task that has an actualStartDate, a call with
\* progress > 0 leaves the smaller of that date and the update date.
C4_MinWithPrevious ==
    \A c \in ProgressCalls :
        (c.newProgress > 0 /\ c.task.actualStartDate # NoDate) =>
            Written(c).actualStartDate = Min(c.task.actualStartDate, c.updateDate)

C4_Witness ==
    \E c \in ProgressCalls :
        /\ c.newProgress > 0
        /\ c.task.actualStartDate # NoDate
        /\ c.updateDate < c.task.actualStartDate
        /\ Written(c).actualStartDate = c.updateDate

\* C5: a stored task with both actual dates has actualStartDate <= actualEndDate.
C5_ActualDatesOrdered ==
    \A t \in StoredTasks :
        (t.actualStartDate # NoDate /\ t.actualEndDate # NoDate) =>
            t.actualStartDate <= t.actualEndDate

\* C6: an updateProgress call with the starting-work sentinel stores
\* progress 0, status in-progress and actualStartDate = the update date.
C6_StartingWork ==
    \A c \in ProgressCalls :
        c.newProgress = StartWork =>
            /\ c.data.progress = 0
            /\ c.data.status = "in-progress"
            /\ Writes(c, "actualStartDate") /\ c.data.actualStartDate = c.updateDate

C6_Witness ==
    \E c \in ProgressCalls :
        /\ c.newProgress = StartWork
        /\ c.task.actualStartDate # NoDate
        /\ c.task.actualStartDate # c.updateDate

\* C7: an updateProgress call with progress 0 and no starting-work flag
\* writes status not-started, clears actualStartDate, and clears
\* actualEndDate when the task had one.
C7_ZeroResets ==
    \A c \in ProgressCalls :
        c.newProgress = 0 =>
            /\ c.data.status = "not-started"
            /\ Writes(c, "actualStartDate") /\ c.data.actualStartDate = NoDate
            /\ c.task.actualEndDate # NoDate =>
                  (Writes(c, "actualEndDate") /\ c.data.actualEndDate = NoDate)

C7_Witness ==
    \E c \in ProgressCalls :
        /\ c.newProgress = 0
        /\ c.task.status = "completed"
        /\ c.task.actualStartDate # NoDate
        /\ c.task.actualEndDate # NoDate

C9_StatusFollowsProgress ==
    \A t \in StoredTasks :
        /\ t.progress = 0 => t.status = "not-started"
        /\ (0 < t.progress /\ t.progress < 100) => t.status = "in-progress"
        /\ t.progress = 100 => t.status = "completed"

\* C10: every stored progress lies in [0, 100].
C10_ProgressInRange ==
    \A t \in StoredTasks : 0 <= t.progress /\ t.progress <= 100

\* the documents handed to createTask and to batchCreateTasks
AddCalls == {c \in BagToSet(calls) : c.kind = "add"}

BatchCalls == {c \in BagToSet(calls) : c.kind = "batch"}

CreatedDocs ==
    {c.doc : c \in AddCalls}
    \cup UNION {{c.tasksToCreate[i] : i \in 1..Len(c.tasksToCreate)} : c \in BatchCalls}

\* C11: every task created by handleAddTask or by the CSV import has
\* planEndDate >= planStartDate, whatever the Duration input was (zero,
\* negative, not a number).
C11_PlanEndNotBeforeStart ==
    \A d \in CreatedDocs : d.planEndDate >= d.planStartDate

\* C12: every task has planDuration = planEndDate - planStartDate + 1 (in
\* days) once handleAddTask or the CSV import has created it, and still has
\* it after a schedule update that edits a plan date.
C12_DurationIsDerived ==
    \A t \in StoredTasks : t.planDuration = (t.planEndDate - t.planStartDate) + 1

\* the task taskId of the list shows every field of updates
Reflects(list, taskId, updates) ==
    /\ HasTask(list, taskId)
    /\ \A f \in DOMAIN updates : FindTask(list, taskId)[f] = updates[f]

\* C13: when a schedule update or a progress update is called, the local
\* task list shows the requested change at the end of that same turn, while
\* the write to the persistence collaborator is still to be completed.
C13_OptimisticInSameTurn ==
    [][\A c \in BagToSet(calls') :
          (c.kind \in {"schedule", "progress"} /\ CopiesIn(c, calls') > CopiesIn(c, calls))
              => Reflects(tasks', c.taskId,
                          IF c.kind = "schedule" THEN c.updates ELSE c.data)]_vars

\* no write and no fetch is under way
Settled == calls = EmptyBag /\ fetches = EmptyBag

\* C14: once a schedule update whose write failed has settled (the write and
\* the re-fetch it caused are over), the local task list holds no plan date
\* that the persistence collaborator does not hold: the optimistic change
\* that was not persisted is gone.
C14_NoStaleOptimisticState ==
    Settled =>
        \A i \in 1..Len(tasks) :
            /\ HasTask(store, tasks[i].id)
            /\ FindTask(store, tasks[i].id).planStartDate = tasks[i].planStartDate
            /\ FindTask(store, tasks[i].id).planEndDate = tasks[i].planEndDate

\* a call of the persistence collaborator is rejected in this step
PersistenceFailure ==
    \/ \E c \in BagToSet(calls) :
            \/ ProgressUpdateFail(c)
            \/ TaskUpdateFail(c)
            \/ AddTaskFail(c)
            \/ ImportBatchFail(c)
    \/ \E f \in BagToSet(fetches) : FetchTasksFail(f)

\* C15: every rejected call of the persistence collaborator (updateTask of
\* a schedule or a progress update, createTask, batchCreateTasks, getTasks)
\* puts a failure message before the user; none is only logged.
C15_FailuresAreShown ==
    [][PersistenceFailure => Len(alerts') = Len(alerts) + 1]_vars

\* the last group row before position i of the list L, 0 when there is none
LastGroupBefore(L, i) ==
    LET G == {j \in 1..(i - 1) : L[j].type = "group"} IN
    IF G = {} THEN 0 ELSE CHOOSE j \in G : \A k \in G : k <= j

\* the parent the scope rule gives position i: the last group row before it,
\* provided no row since that group has left the group's category
ScopeParent(L, i) ==
    LET g == LastGroupBefore(L, i) IN
    IF g = 0 THEN NoId
    ELSE IF \A k \in (g + 1)..i : L[k].category = L[g].category THEN L[g].id
    ELSE NoId

\* C16: in a CSV import a group row opens a parent scope; every following
\* non-group row of the group's category gets that group's id as
\* parentTaskId; the first non-group row of another category gets none and
\* closes the scope, so that later rows of the group's category get none
\* either; a new group row replaces the scope.
C16_GroupScope ==
    \A c \in BatchCalls :
        \A i \in 1..Len(c.tasksToCreate) :
            c.tasksToCreate[i].type # "group" =>
                c.tasksToCreate[i].parentTaskId = ScopeParent(c.tasksToCreate, i)

\* a group, a row attached to it, a row of another category, and a row
\* that returns to the group's category unattached
C16_Witness ==
    \E c \in BatchCalls :
        LET L == c.tasksToCreate IN
        /\ Len(L) = 4
        /\ L[1].type = "group"
        /\ L[2].type = "task" /\ L[2].category = L[1].category
        /\ L[2].parentTaskId = L[1].id
        /\ L[3].type = "task" /\ L[3].category # L[1].category
        /\ L[3].parentTaskId = NoId
        /\ L[4].type = "task" /\ L[4].category = L[1].category
        /\ L[4].parentTaskId = NoId

\* the last non-group row before position i of the list L, 0 when there is none
RECURSIVE LastTaskBefore(_, _)
LastTaskBefore(L, i) ==
    IF i <= 1 THEN 0
    ELSE IF L[i - 1].type # "group" THEN i - 1
    ELSE LastTaskBefore(L, i - 1)

\* the group rows of L have no predecessor and are nobody's predecessor
GroupsUnchained(L) ==
    \A i \in 1..Len(L) :
        L[i].type = "group" =>
            /\ L[i].predecessors = <<>>
            /\ \A j \in 1..Len(L) : L[j].predecessors # <<L[i].id>>

\* C17 as stated: in a CSV import every non-group row gets exactly one
\* predecessor, the previous non-group row or, for the first one, the last
\* task already in the project; group rows get none and are nobody's
\* predecessor.
C17_EveryRowChained ==
    \A c \in BatchCalls :
        LET L == c.tasksToCreate IN
        /\ GroupsUnchained(L)
        /\ \A i \in 1..Len(L) :
            L[i].type # "group" =>
                /\ Len(L[i].predecessors) = 1
                /\ IF LastTaskBefore(L, i) # 0
                   THEN L[i].predecessors[1] = L[LastTaskBefore(L, i)].id
                   ELSE /\ Len(tasks) > 0
                        /\ L[i].predecessors[1] = tasks[Len(tasks)].id

\* C17 amended: every non-group row but the first gets the previous
\* non-group row as its single predecessor; the first non-group row gets
\* the last task of the controller's list, and no predecessor when that
\* list is empty; group rows get none and are nobody's predecessor.
C17_ChainFromLastTask ==
    \A c \in BatchCalls :
        LET L == c.tasksToCreate IN
        /\ GroupsUnchained(L)
        /\ \A i \in 1..Len(L) :
            L[i].type # "group" =>
                L[i].predecessors =
                    IF LastTaskBefore(L, i) # 0 THEN <<L[LastTaskBefore(L, i)].id>>
                    ELSE IF Len(tasks) > 0 THEN <<tasks[Len(tasks)].id>>
                    ELSE <<>>

\* an import into an empty project: the first row has no predecessor, and
\* the row after a group row is chained to the row before the group
C17_Witness ==
    \E c \in BatchCalls :
        LET L == c.tasksToCreate IN
        /\ tasks = <<>>
        /\ Len(L) = 3
        /\ L[1].type = "task" /\ L[1].predecessors = <<>>
        /\ L[2].type = "group" /\ L[2].predecessors = <<>>
        /\ L[3].type = "task" /\ L[3].predecessors = <<L[1].id>>

\* what the import under way has written so far; while it runs the local
\* list is the list the persistence collaborator held when it began
WrittenSoFar(s) == SubSeq(s, Len(tasks) + 1, Len(s))

\* C18: the import writes the tasks to create in consecutive batches of at
\* most 450 records, one batch at a time; the batches written so far are, in
\* order, a prefix of the list, the next batch begins where they end, and the
\* import is over exactly when the whole list has been written, so that every
\* task is in exactly one batch.
C18_ConsecutiveBatches ==
    [][\A c \in BatchCalls :
          ImportBatchOk(c) =>
              /\ Len(store') - Len(store) >= 1
              /\ Len(store') - Len(store) <= 450
              /\ WrittenSoFar(store) = SubSeq(c.tasksToCreate, 1, c.i)
              /\ WrittenSoFar(store') =
                     SubSeq(c.tasksToCreate, 1, Len(WrittenSoFar(store')))
              /\ BagCardinality(calls') <= 1
              /\ \A n \in BagToSet(calls') :
                     n.kind = "batch" /\ n.i = Len(WrittenSoFar(store'))
              /\ (calls' = EmptyBag) <=> (WrittenSoFar(store') = c.tasksToCreate)]_vars

\* two full batches are written and the third is under way
C18_Witness ==
    \E c \in BatchCalls :
        /\ c.i = 2 * 450
        /\ Len(c.tasksToCreate) > c.i
        /\ WrittenSoFar(store) = SubSeq(c.tasksToCreate, 1, c.i)

\* the last message shown says that the import failed
ImportFailed == alerts # <<>> /\ alerts[Len(alerts)].msg \in ImportFailureMessages

\* C19: when batch k of an import is rejected, the batches 1..k-1 stay
\* written (nothing is rolled back), the import is reported as failed, the
\* importing flag is reset, and no batch after k is written: nothing of the
\* import is left under way and the stored tasks do not change any more.
C19_FailedBatchStopsImport ==
    [][/\ \A c \in BatchCalls :
            ImportBatchFail(c) =>
                /\ store' = store
                /\ WrittenSoFar(store') = SubSeq(c.tasksToCreate, 1, c.i)
                /\ calls' = EmptyBag
                /\ Len(alerts') = Len(alerts) + 1
                /\ alerts'[Len(alerts')].msg \in ImportFailureMessages
                /\ importing' = FALSE
       /\ ImportFailed => (store' = store /\ calls' = EmptyBag /\ importing' = FALSE)]_vars

\* the second batch of an import was rejected: the first batch is stored,
\* the failure is shown and the flag is reset
C19_Witness ==
    /\ ImportFailed
    /\ Len(WrittenSoFar(store)) = 450
    /\ calls = EmptyBag
    /\ ~importing

\* the handleImportFile invocations waiting for the file to be read
ReadCalls == {c \in BagToSet(calls) : c.kind = "read"}

NamedRows(data) == {k \in 1..Len(data) : data[k].name # ""}

\* C20: an import of an empty file, or of a file whose rows all lack a
\* name, is never reported as a success with 0 records; and the tasks an
\* import creates are as many as the rows with a name.
C20_NoEmptySuccess ==
    /\ \A k \in 1..Len(alerts) :
            ~(alerts[k].msg = "Import completed" /\ alerts[k].count = 0)
    /\ \A c \in ReadCalls :
            Len(TasksToCreate(c.tasks, c.data, nextId, c.today))
                = Cardinality(NamedRows(c.data))

\* the rows whose plan-start cell gives no date: missing or blank, '-',
\* or text that is no date
NoStartRows(data) ==
    {k \in NamedRows(data) : data[k].start.kind \in {"blank", "dash", "other", "shaped"}}

\* the place of row k among the records created: rows without a name are skipped
RecordOf(data, k) == Cardinality({j \in NamedRows(data) : j <= k})

\* C21: when the file of an import has been read, every row with a name is
\* created, also when the plan-start cell of a row is missing, '-', blank
\* or no date: such a row gets the import date as planStartDate and never
\* makes the import fail or keeps the other rows from being created.
C21_BadStartFallsBackToToday ==
    [][\A c \in ReadCalls :
          (/\ ~BagIn(c, calls')
           /\ NamedRows(c.data) # {}
           /\ alerts' # Alert("Import failed: Unknown error", 0))
          => \E n \in BagToSet(calls') :
                /\ n.kind = "batch"
                /\ Len(n.tasksToCreate) = Cardinality(NamedRows(c.data))
                /\ \A k \in NoStartRows(c.data) :
                      n.tasksToCreate[RecordOf(c.data, k)].planStartDate = c.today]_vars

\* C22: when a task list is exported and the exported rows are imported
\* again, every record created has the planStartDate, planEndDate, progress
\* and category of the task it was exported from, also for a task without a
\* category and for a task whose planDuration is 0 or disagrees with its
\* plan dates.
C22_ExportImportRoundTrip ==
    \A c \in BatchCalls :
        /\ Len(c.tasksToCreate) = Len(tasks)
        /\ \A i \in 1..Len(tasks) :
            /\ c.tasksToCreate[i].planStartDate = tasks[i].planStartDate
            /\ c.tasksToCreate[i].planEndDate = tasks[i].planEndDate
            /\ c.tasksToCreate[i].progress = tasks[i].progress
            /\ c.tasksToCreate[i].category = tasks[i].category

ScheduleCalls == {c \in BagToSet(calls) : c.kind = "schedule"}

\* C29: whenever a write started by a schedule update for task t is in
\* flight, t is in updatingTaskIds, also when several schedule updates of the
\* same task overlap and one of them completes before the others.
C29_InFlightIsMarked ==
    \A c \in ScheduleCalls : c.taskId \in updatingTaskIds

\* C30: once every schedule update that was started has completed, with
\* success or with a failure, updatingTaskIds is empty, for every
\* interleaving of overlapping updates.
C30_AllDoneNoneMarked ==
    ScheduleCalls = {} => updatingTaskIds = {}

\* every schedule update the run may start was started, overlapping ones
\* included, all have completed, and one of them was written
C30_Witness ==
    /\ budget.calls = 0
    /\ calls = EmptyBag
    /\ updatingTaskIds = {}
    /\ store[1].planEndDate # FreshTask.planEndDate
    /\ tasks[1].planStartDate # store[1].planStartDate

\* C23: in 4-week window mode the only view mode offered is day, and after
\* any sequence of view-mode change requests the chart view mode returns to
\* day: a non-day mode never persists.
C23_FourWeeksForceDay ==
    /\ [](windowMode = "4w" => AllowedViewModes = {"day"})
    /\ \A mode \in ViewModes \ {"day"} :
          (windowMode = "4w" /\ chartViewMode = mode) ~> (chartViewMode = "day")

\* a non-day view mode was requested in 4-week mode
C23_Witness ==
    /\ windowMode = "4w"
    /\ chartViewMode = "week"
    /\ "week" \notin AllowedViewModes

\* the Monday and the Sunday of the week that holds day d
MondayOf(d) == CHOOSE m \in (d - 6)..d : GetDay(m) = 1

SundayOf(d) == CHOOSE m \in d..(d + 6) : GetDay(m) = 0

\* C24: in 4-week window mode, for every value of today, the effective range
\* starts on the Monday of today's week minus 7 days and ends on the Sunday
\* of today's week plus 14 days; it contains today, spans 28 days, and the
\* dates of the project are not used.
C24_FourWeekRange ==
    windowMode = "4w" =>
        /\ EffectiveStartDate = MondayOf(mountDate) - 7
        /\ EffectiveEndDate = SundayOf(mountDate) + 14
        /\ EffectiveStartDate <= mountDate /\ mountDate <= EffectiveEndDate
        /\ EffectiveEndDate - EffectiveStartDate + 1 = 28

\* the page was opened in 4-week mode on a Sunday, the last day of its week,
\* on a project whose dates lie outside the four weeks
C24_Witness ==
    /\ windowMode = "4w"
    /\ GetDay(mountDate) = 0
    /\ selectedProject.endDate < EffectiveStartDate
    /\ EffectiveStartDate = mountDate - 13

HeaderDrawn == props.component = "TimelineHeader" /\ rendered.component = "TimelineHeader"

\* the items that belong to a group: those of its (year, month), or of its
\* year in month zoom
ItemsOfGroup(group) ==
    {i \in 1..Len(props.timeline.items) :
        /\ GetFullYear(props.timeline.items[i]) = GetFullYear(group)
        /\ props.viewMode # "month" => GetMonth(props.timeline.items[i]) = GetMonth(group)}

RECURSIVE SumTo(_, _)
SumTo(widths, n) == IF n = 0 THEN 0 ELSE SumTo(widths, n - 1) + widths[n]

\* C25: in the timeline header the width of each group is the number of
\* timeline items that belong to the group times cellWidth, for every zoom
\* level and also for partial first and last groups; every item belongs to
\* exactly one group, and the widths sum to items.length x cellWidth.
C25_GroupWidths ==
    HeaderDrawn =>
        /\ \A g \in 1..Len(props.timeline.groups) :
              rendered.groupWidths[g] =
                  Cardinality(ItemsOfGroup(props.timeline.groups[g])) * props.cellWidth
        /\ \A i \in 1..Len(props.timeline.items) :
              Cardinality({g \in 1..Len(props.timeline.groups) :
                              i \in ItemsOfGroup(props.timeline.groups[g])}) = 1
        /\ SumTo(rendered.groupWidths, Len(rendered.groupWidths))
              = Len(props.timeline.items) * props.cellWidth

\* a day header over a year end was drawn whose first and last month are
\* partial
C25_Witness ==
    /\ HeaderDrawn
    /\ props.viewMode = "day"
    /\ Len(rendered.groupWidths) = 4
    /\ rendered.groupWidths[1] = 14 * props.cellWidth
    /\ rendered.groupWidths[2] = 31 * props.cellWidth
    /\ rendered.groupWidths[3] = 29 * props.cellWidth
    /\ rendered.groupWidths[4] = 2 * props.cellWidth
    /\ GetFullYear(props.timeline.items[1]) = 2023

\* C26: in week zoom the label of a timeline item is its 1-based position
\* among the items of the same (year, month): the first week item of a month
\* is labelled 1 and the labels increase by 1 within the month.
C26_WeekLabels ==
    (HeaderDrawn /\ props.viewMode = "week") =>
        \A i \in 1..Len(props.timeline.items) :
            rendered.labels[i] =
                IF i > 1 /\ GetMonth(props.timeline.items[i]) = GetMonth(props.timeline.items[i - 1])
                         /\ GetFullYear(props.timeline.items[i])
                                = GetFullYear(props.timeline.items[i - 1])
                THEN rendered.labels[i - 1] + 1
                ELSE 1

\* a week header was drawn in which the labels run to 5 and start again at 1
C26_Witness ==
    /\ HeaderDrawn
    /\ props.viewMode = "week"
    /\ \E i \in 2..Len(rendered.labels) : rendered.labels[i - 1] = 5 /\ rendered.labels[i] = 1

GraphDrawn ==
    /\ props.component = "SCurveGraph"
    /\ rendered.component = "SCurveGraph"
    /\ ~rendered.threw

\* C27: in day zoom a point with date d is placed at (whole days from the
\* first timeline item to d) x cellWidth, in week zoom at that number of
\* days / 7 x cellWidth, so that the point of the i-th timeline item lies on
\* the i-th grid line the overlay draws, and the first item is at offset 0.
C27_PointsOnGridLines ==
    (GraphDrawn /\ props.viewMode \in {"day", "week"}) =>
        /\ \A k \in 1..Len(props.data.points) :
              rendered.planLine[k].x.num
                  * (IF props.viewMode = "day" THEN 1 ELSE 7)
                = (props.data.points[k].date - props.timeline.items[1]) * props.cellWidth
                  * rendered.planLine[k].x.den
        /\ \A i \in 1..Len(props.timeline.items), k \in 1..Len(props.data.points) :
              props.data.points[k].date = props.timeline.items[i] =>
                  rendered.planLine[k].x.num
                      = rendered.gridLines[i] * rendered.planLine[k].x.den
        /\ \A k \in 1..Len(props.data.points) :
              props.data.points[k].date = props.timeline.items[1] =>
                  rendered.planLine[k].x.num = 0

\* a week graph was drawn whose range starts in the middle of a week, with
\* the point of its seventh item on the seventh grid line
C27_Witness ==
    /\ GraphDrawn
    /\ props.viewMode = "week"
    /\ props.timeRange.start # props.timeline.items[1]
    /\ Len(rendered.gridLines) = 7
    /\ rendered.planLine[7].x.num = 6 * props.cellWidth * 7

\* the indices of the series points that are not after maxActualDate
Qualifying ==
    {k \in 1..Len(props.data.points) : props.data.points[k].date <= props.data.maxActualDate}

\* C28: the actual line has exactly the series points whose date is at most
\* maxActualDate, in series order; when no point qualifies, no actual line
\* and no actual end label are drawn.
C28_ActualLineStopsAtMaxDate ==
    (props.component = "SCurveGraph" /\ rendered.component = "SCurveGraph") =>
        /\ ~rendered.threw =>
            /\ Len(rendered.actualLine) = Cardinality(Qualifying)
            /\ \A k \in Qualifying :
                  LET j == Cardinality({q \in Qualifying : q <= k})
                  IN  rendered.actualLine[j] =
                          [x |-> GetX(props, props.data.points[k].date),
                           y |-> GetY(props, props.data.points[k].actual)]
        /\ Qualifying = {} => rendered.actualLine = <<>> /\ rendered.actualEndLabel = <<>>
        /\ Qualifying # {} /\ ~rendered.threw => Len(rendered.actualEndLabel) = 1

\* a graph was drawn whose actual line ends at the point of maxActualDate,
\* with later points in the series
C28_Witness ==
    /\ GraphDrawn
    /\ Len(rendered.actualLine) = 4
    /\ Len(rendered.planLine) > 4
    /\ props.data.points[4].date = props.data.maxActualDate
    /\ rendered.actualEndLabel[1].x = rendered.actualLine[4].x

\* C31: whenever no persistence call is in flight and every fetch has
\* succeeded, the local task list equals the task list of the store; a
\* getTasks reply that completes out of order, after a newer reply or a
\* newer optimistic update, does not remain as the final local list.
C31_LocalListConverges ==
    (calls = EmptyBag /\ fetches = EmptyBag) => tasks = store

\* fields no progress update may write
FrameOf(task) ==
    <<task.planStartDate, task.planEndDate, task.planDuration, task.order,
      task.parentTaskId, task.predecessors>>

\* C32: updateProgress hands to the store only the fields progress,
\* progressUpdatedAt, status, remarks (exactly when a reason is given),
\* actualStartDate and actualEndDate; the plan dates, planDuration, order,
\* parentTaskId and predecessors of the stored tasks never change;
\* actualStartDate is not written when 0 < progress and the task has one that
\* is not after the update date; a call with an unknown task id starts no
\* write and no fetch.
C32_ProgressWritesOnlyItsFields ==
    [][/\ \A c \in {n \in BagToSet(calls') : n.kind = "progress"} :
            /\ DOMAIN c.data \subseteq {"progress", "progressUpdatedAt", "status", "remarks",
                                        "actualStartDate", "actualEndDate"}
            /\ {"progress", "progressUpdatedAt", "status"} \subseteq DOMAIN c.data
            /\ Writes(c, "remarks") <=> c.reason # ""
            /\ (/\ c.data.progress > 0
                /\ c.task.actualStartDate # NoDate
                /\ c.task.actualStartDate <= c.updateDate) => ~Writes(c, "actualStartDate")
            /\ CopiesIn(c, calls') > CopiesIn(c, calls) => HasTask(tasks, c.taskId)
       /\ Len(store') = Len(store)
       /\ \A i \in 1..Len(store) : FrameOf(store'[i]) = FrameOf(store[i])
       /\ BagCardinality(fetches') > BagCardinality(fetches) =>
            \E c \in ProgressCalls :
                /\ CopiesIn(c, calls') < CopiesIn(c, calls)
                /\ c.task.id = c.taskId]_vars

\* an update to 60 with a reason, on a task started on or before the update
\* date, was written: remarks and no actualStartDate among its fields, the
\* plan of the stored task as it was
C32_Witness ==
    /\ calls = EmptyBag
    /\ Len(store) = 1
    /\ store[1].progress = 60
    /\ store[1].remarks = "late"
    /\ store[1].actualStartDate = 2
    /\ store[1].progressUpdatedAt = 1
    /\ FrameOf(store[1]) = FrameOf(FreshTask)

\* the order values of a list of records
OrdersOf(list) == {list[i].order : i \in 1..Len(list)}

\* C33: the order values one CSV import assigns are strictly increasing in
\* row order, hence pairwise distinct, and all greater than every order in
\* the local task list; addTask assigns an order greater than every order in
\* the local task list at the time of the call.
C33_NewOrdersAboveLocalOnes ==
    /\ \A c \in BatchCalls :
        /\ \A i \in 1..(Len(c.tasksToCreate) - 1) :
              c.tasksToCreate[i].order < c.tasksToCreate[i + 1].order
        /\ \A o \in OrdersOf(tasks) : o < c.tasksToCreate[1].order
    /\ \A c \in AddCalls : \A o \in OrdersOf(tasks) : o < c.doc.order

\* an import of several rows is being written into a project whose highest
\* order is not that of its last task
C33_Witness ==
    /\ tasks = ReorderedList
    /\ \E c \in BatchCalls :
        /\ Len(c.tasksToCreate) > 2
        /\ c.tasksToCreate[1].order = 4
        /\ c.tasksToCreate[3].order = 6

\* C34: after the mount check and after every completed login, logout and
\* refreshUser, the in-memory user is non-null exactly when localStorage
\* holds an item under 'srt-hst-user', the item is the stored form of that
\* user, and isAuthenticated is true exactly when the user is non-null.
C34_UserMatchesStoredSession ==
    ~loading =>
        /\ user # NoUser <=> localStorage.kind # "none"
        /\ user # NoUser => (localStorage.kind = "json" /\ Parse(localStorage) = user)
        /\ IsAuthenticated <=> user.id # NoId

\* the mount check is done, every call the run may make has completed, and
\* the one login among them has logged a member in
C34_Witness ==
    /\ ~loading
    /\ authCalls = EmptyBag
    /\ budget.calls = 0
    /\ Len(loginResults) = 1
    /\ loginResults[1].success
    /\ user = MemberA
    /\ localStorage = Stringify(MemberA)

RefreshCalls == {c \in BagToSet(authCalls) : c.kind = "refresh"}

\* C35: after logout the session stays logged out until a login started
\* after the logout succeeds; a call whose member fetch was in flight when
\* logout was called does not re-authenticate the user when it completes.
\* refreshUser is only started while a user is logged in, so a refreshUser in
\* flight while the user is null was in flight when logout was called: when
\* it completes, the user is still null and no session is stored.
C35_LogoutIsFinal ==
    [][\A c \in RefreshCalls :
          (/\ ~loading
           /\ user = NoUser
           /\ CopiesIn(c, authCalls') < CopiesIn(c, authCalls))
          => (user' = NoUser /\ localStorage'.kind = "none")]_vars

LoginCalls == {c \in BagToSet(authCalls) : c.kind = "login"}

\* the login call that returns in this step, and what it returns
Returns(c, success) ==
    /\ CopiesIn(c, authCalls') < CopiesIn(c, authCalls)
    /\ loginResults' = Append(loginResults, [email |-> c.email, success |-> success])

\* some member's email equals the given one, both trimmed and lower-cased
Matches(email) ==
    \E i \in 1..Len(members) : CleanEmail(members[i].email) = CleanEmail(email)

\* C36: a login succeeds exactly when the member fetch succeeds and some
\* member's email equals the given email, both trimmed and lower-cased; a
\* login that fails returns success = false and leaves the user and the
\* stored session as they were; a refreshUser whose fetch fails or finds no
\* member with the user's id leaves them as they were too.
C36_LoginAndRefreshOutcomes ==
    [][/\ \A c \in LoginCalls :
            /\ CopiesIn(c, authCalls') < CopiesIn(c, authCalls)
                    => (Returns(c, TRUE) \/ Returns(c, FALSE))
            /\ Returns(c, TRUE) =>
                    /\ Matches(c.email)
                    /\ CleanEmail(user'.email) = CleanEmail(c.email)
                    /\ localStorage' = Stringify(user')
            /\ Returns(c, FALSE) => (user' = user /\ localStorage' = localStorage)
            /\ (LoginResolved(c) /\ Matches(c.email)) => Returns(c, TRUE)
            /\ LoginRejected(c) => Returns(c, FALSE)
       /\ \A c \in RefreshCalls :
            (\/ RefreshRejected(c)
             \/ /\ RefreshResolved(c)
                /\ \A i \in 1..Len(members) : members[i].id # c.userId)
            => (user' = user /\ localStorage' = localStorage)]_vars

\* a login with an address typed in capitals and with blanks has succeeded
\* after one with an unknown address had failed
C36_Witness ==
    /\ Len(loginResults) = 2
    /\ loginResults[1] = [email |-> "c@x.co", success |-> FALSE]
    /\ loginResults[2] = [email |-> " A@X.co ", success |-> TRUE]
    /\ user = MemberA

====
